---- MODULE Spec2Model ----
(***************************************************************************)
(* A model of run_recipe (recipes/recipe.py): the merge of the fixed and   *)
(* mutable component dictionaries, the completion of <k>_args/<k>_kwargs,  *)
(* the construction of the pipeline in program order, the training call    *)
(* and the verification of the results against the acceptable thresholds.  *)
(*                                                                         *)
(* A dictionary is an insertion-ordered sequence of <<key, value>> pairs.  *)
(* A key is a sequence of tokens (<<"model", "_args">> is 'model_args'),   *)
(* so that '%s_args' % k appends a token and k.endswith('_args') looks at  *)
(* the last one.  An optional value is <<>> (None) or <<v>>.               *)
(***************************************************************************)
EXTENDS Integers, Sequences, FiniteSets, TLC

VARIABLES
    dicts,        \* the dictionary objects: the caller's fixed and mutable, and the merged one
    comps,        \* which object the local name comps is bound to ("none" before line 44)
    old_keys,     \* the snapshot of comps' keys (line 47)
    kidx,         \* position of the loop of line 48 in old_keys
    metrics,      \* the caller's metrics list object (the parameter is a reference to it)
    train_metrics,\* the metrics= argument handed to test_training (line 122)
    results,      \* what test_training returned
    ok,           \* line 126
    vidx,         \* position of the loop of line 127
    pc,           \* position of the call in run_recipe
    exc,          \* the exception the call ended with, <<>> when none
    ret,          \* the returned value, "none" when none
    calls,        \* the collaborators invoked by the current call, in order
    output,       \* what the current call printed
    runs,         \* calls of run_recipe started so far
    entry,        \* the arguments as they were when the current call started
    initial,      \* the metrics list as the caller first built it
    past_optimizer \* calls that got past the construction of the optimizer

vars == <<dicts, comps, old_keys, kidx, metrics, train_metrics, results, ok,
          vidx, pc, exc, ret, calls, output, runs, entry, initial,
          past_optimizer>>

----------------------------------------------------------------------------
(* Bounds of the model *)

MaxEdits == 2
MaxMetrics == 2
MaxRuns == 2

----------------------------------------------------------------------------
(* Values *)

None == <<>>
Some(v) == <<v>>

EmptyTuple == "tuple()"
EmptyDict == "{}"
NoneValue == "None"

Key(name) == <<name>>
ArgsKey(k) == Append(k, "_args")
KwargsKey(k) == Append(k, "_kwargs")
EndsWith(k, suffix) == Len(k) > 0 /\ k[Len(k)] = suffix

ReservedKeys == {Key("batch_size"), Key("epochs"), Key("events")}

WallclockEntry == <<"WallclockTime", None>>

----------------------------------------------------------------------------
(* Dictionaries *)

DictKeys(d) == [j \in 1..Len(d) |-> d[j][1]]
KeySet(d) == {d[j][1] : j \in 1..Len(d)}
Has(d, k) == k \in KeySet(d)
Get(d, k) == d[CHOOSE j \in 1..Len(d) : d[j][1] = k][2]
SetItem(d, k, v) ==
    IF Has(d, k)
    THEN [j \in 1..Len(d) |-> IF d[j][1] = k THEN <<k, v>> ELSE d[j]]
    ELSE Append(d, <<k, v>>)

RECURSIVE Update(_, _)
Update(d, items) ==
    IF items = <<>> THEN d
    ELSE Update(SetItem(d, Head(items)[1], Head(items)[2]), Tail(items))

DictMerge(f, m) == Update(f, m)

Overlap_All(f, m) == \A j \in 1..Len(f) : Has(m, f[j][1])

Overlap(f, m) == \E j \in 1..Len(f) : Has(m, f[j][1])

NeedsCompanions(k) ==
    /\ k \notin ReservedKeys
    /\ ~(EndsWith(k, "_args") \/ EndsWith(k, "_kwargs"))

Completed_Overwrite(d, k) ==
    SetItem(SetItem(d, ArgsKey(k), EmptyTuple), KwargsKey(k), EmptyDict)

Completed(d, k) ==
    LET d1 == IF ~Has(d, ArgsKey(k)) THEN SetItem(d, ArgsKey(k), EmptyTuple) ELSE d
    IN  IF ~Has(d1, KwargsKey(k)) THEN SetItem(d1, KwargsKey(k), EmptyDict) ELSE d1

----------------------------------------------------------------------------
(* The arguments a caller may pass *)

KeyUniverse ==
    << Key("model"), Key("executor"), Key("dataset"), Key("batch_size"),
       Key("epochs"), Key("optimizer"), Key("events"), Key("train_sampler"),
       Key("validation_sampler"), ArgsKey(Key("model")),
       KwargsKey(Key("optimizer")) >>

Placements == {"absent", "fixed", "mutable", "both"}

BasePlacement(k) ==
    IF k \in {Key("model"), Key("executor")} THEN "fixed"
    ELSE IF k \in {Key("dataset"), Key("batch_size"), Key("epochs"),
                   Key("optimizer")} THEN "mutable"
    ELSE "absent"

RECURSIVE Build(_, _, _, _)
Build(keys, place, who, value) ==
    IF keys = <<>> THEN <<>>
    ELSE LET rest == Build(Tail(keys), place, who, value)
         IN  IF place[Head(keys)] \in {who, "both"}
             THEN <<<<Head(keys), value>>>> \o rest
             ELSE rest

UniverseSet == {KeyUniverse[j] : j \in 1..Len(KeyUniverse)}

PlacementsWithin(n) ==
    UNION { { [k \in UniverseSet |-> IF k \in E THEN q[k] ELSE BasePlacement(k)]
              : q \in [E -> Placements] }
            : E \in {S \in SUBSET UniverseSet : Cardinality(S) <= n} }

Thresholds == {None, Some(1)}
ResultValues == {0, 1, 2}

MetricNames == {"Accuracy", "Loss"}

MetricLists(n) ==
    UNION { [1..len -> MetricNames \X Thresholds] : len \in 0..n }

RecipeOf(place) ==
    [fixed |-> Build(KeyUniverse, place, "fixed", "F"),
     mutable |-> Build(KeyUniverse, place, "mutable", "M")]

BaseMetrics == << <<"Accuracy", Some(1)>> >>

----------------------------------------------------------------------------
(* The collaborators *)

CollaboratorError(name) == <<"CollaboratorError", name>>
ConfigurationError(kind, what) == <<kind, what>>

TestTrainingResults(ms) == [1..Len(ms) -> ResultValues]

Raise(e) ==
    /\ pc' = "done"
    /\ exc' = e

Invoke_Continue(name, next) ==
    /\ calls' = Append(calls, name)
    /\ \E raises \in BOOLEAN :
          /\ pc' = next
          /\ exc' = IF raises THEN CollaboratorError(name) ELSE exc

Invoke(name, next) ==
    /\ calls' = Append(calls, name)
    /\ \E raises \in BOOLEAN :
          IF raises THEN Raise(CollaboratorError(name))
          ELSE pc' = next /\ exc' = exc

Merged == dicts[comps]

Construct(k, name, next) ==
    IF ~(Has(Merged, ArgsKey(k)) /\ Has(Merged, KwargsKey(k)))
    THEN Raise(<<"KeyError", k>>) /\ calls' = calls
    ELSE Invoke(name, next)

----------------------------------------------------------------------------
(* The state after the caller built its arguments *)

Init ==
    /\ \E place \in PlacementsWithin(MaxEdits), ms \in MetricLists(MaxMetrics) :
          /\ place = [k \in UniverseSet |-> BasePlacement(k)] \/ ms = BaseMetrics
          /\ dicts = [fixed |-> RecipeOf(place).fixed,
                      mutable |-> RecipeOf(place).mutable,
                      merged |-> <<>>]
          /\ metrics = ms
          /\ initial = ms
          /\ entry = [fixed |-> RecipeOf(place).fixed,
                      mutable |-> RecipeOf(place).mutable,
                      metrics |-> ms]
    /\ comps = "none"
    /\ old_keys = <<>>
    /\ kidx = 1
    /\ train_metrics = <<>>
    /\ results = <<>>
    /\ ok = TRUE
    /\ vidx = 1
    /\ pc = "idle"
    /\ exc = <<>>
    /\ ret = "none"
    /\ calls = <<>>
    /\ output = <<>>
    /\ runs = 0
    /\ past_optimizer = 0

----------------------------------------------------------------------------
(* run_recipe, step by step *)

Call ==
    /\ pc \in {"idle", "done"}
    /\ runs < MaxRuns
    /\ runs' = runs + 1
    /\ pc' = "validate"
    /\ entry' = [fixed |-> dicts.fixed, mutable |-> dicts.mutable,
                 metrics |-> metrics]
    /\ dicts' = [dicts EXCEPT !.merged = <<>>]
    /\ comps' = "none"
    /\ old_keys' = <<>>
    /\ kidx' = 1
    /\ train_metrics' = <<>>
    /\ results' = <<>>
    /\ ok' = TRUE
    /\ vidx' = 1
    /\ exc' = <<>>
    /\ ret' = "none"
    /\ calls' = <<>>
    /\ output' = <<>>
    /\ UNCHANGED <<metrics, initial, past_optimizer>>

ValidateArguments ==
    /\ pc = "validate"
    /\ IF Overlap(dicts.fixed, dicts.mutable)
       THEN Raise(ConfigurationError("RuntimeError", "overlap"))
       ELSE pc' = "merge" /\ exc' = exc
    /\ UNCHANGED <<dicts, comps, old_keys, kidx, metrics, train_metrics,
                   results, ok, vidx, ret, calls, output, runs, entry,
                   initial, past_optimizer>>

CreateUnifiedDictionary_InPlace ==
    /\ pc = "merge"
    /\ comps' = "fixed"
    /\ dicts' = [dicts EXCEPT !.fixed = DictMerge(dicts.fixed, dicts.mutable)]
    /\ old_keys' = DictKeys(DictMerge(dicts.fixed, dicts.mutable))
    /\ kidx' = 1
    /\ pc' = "normalize"
    /\ UNCHANGED <<metrics, train_metrics, results, ok, vidx, exc, ret, calls,
                   output, runs, entry, initial, past_optimizer>>

CreateUnifiedDictionary ==
    /\ pc = "merge"
    /\ comps' = "merged"
    /\ dicts' = [dicts EXCEPT !.merged = DictMerge(dicts.fixed, dicts.mutable)]
    /\ old_keys' = DictKeys(DictMerge(dicts.fixed, dicts.mutable))
    /\ kidx' = 1
    /\ pc' = "normalize"
    /\ UNCHANGED <<metrics, train_metrics, results, ok, vidx, exc, ret, calls,
                   output, runs, entry, initial, past_optimizer>>

AddMissingArguments ==
    /\ pc = "normalize"
    /\ IF kidx > Len(old_keys)
       THEN /\ pc' = "dataset_loss"
            /\ UNCHANGED <<dicts, kidx>>
       ELSE /\ dicts' = [dicts EXCEPT ![comps] =
                            IF NeedsCompanions(old_keys[kidx])
                            THEN Completed(@, old_keys[kidx]) ELSE @]
            /\ kidx' = kidx + 1
            /\ pc' = pc
    /\ UNCHANGED <<comps, old_keys, metrics, train_metrics, results, ok, vidx,
                   exc, ret, calls, output, runs, entry, initial,
                   past_optimizer>>

Locals == <<comps, old_keys, kidx, train_metrics, results, ok, vidx>>
Caller == <<runs, entry, initial>>

ObtainDatasetLoss ==
    /\ pc = "dataset_loss"
    /\ IF ~Has(Merged, Key("dataset"))
       THEN Raise(ConfigurationError("SyntaxError", "dataset")) /\ calls' = calls
       ELSE Invoke("dataset_loss", "dataset_shape")
    /\ UNCHANGED <<dicts, metrics, ret, output, past_optimizer, Locals, Caller>>

ObtainDatasetShape ==
    /\ pc = "dataset_shape"
    /\ Invoke("dataset_shape", "create_model")
    /\ UNCHANGED <<dicts, metrics, ret, output, past_optimizer, Locals, Caller>>

ConstructNetwork ==
    /\ pc = "create_model"
    /\ IF ~Has(Merged, Key("model"))
       THEN Raise(ConfigurationError("SyntaxError", "model")) /\ calls' = calls
       ELSE IF ~Has(Merged, Key("batch_size"))
       THEN Raise(ConfigurationError("SyntaxError", "batch_size")) /\ calls' = calls
       ELSE /\ Construct(Key("model"), "create_model", "add_operation")
    /\ UNCHANGED <<dicts, metrics, ret, output, past_optimizer, Locals, Caller>>

AddLossFunction_Skipped ==
    /\ pc = "add_operation"
    /\ pc' = "load_dataset"
    /\ UNCHANGED <<dicts, metrics, exc, ret, calls, output, past_optimizer,
                   Locals, Caller>>

AddLossFunction ==
    /\ pc = "add_operation"
    /\ Invoke("add_operation", "load_dataset")
    /\ UNCHANGED <<dicts, metrics, ret, output, past_optimizer, Locals, Caller>>

ConstructDataset ==
    /\ pc = "load_dataset"
    /\ Construct(Key("dataset"), "load_dataset", "train_sampler")
    /\ UNCHANGED <<dicts, metrics, ret, output, past_optimizer, Locals, Caller>>

ConstructTrainSampler ==
    /\ pc = "train_sampler"
    /\ IF Has(Merged, Key("train_sampler"))
       THEN /\ Construct(Key("train_sampler"), "train_sampler", "validation_sampler")
       ELSE pc' = "validation_sampler" /\ UNCHANGED <<calls, exc>>
    /\ UNCHANGED <<dicts, metrics, ret, output, past_optimizer, Locals, Caller>>

ConstructValidationSampler ==
    /\ pc = "validation_sampler"
    /\ IF Has(Merged, Key("validation_sampler"))
       THEN /\ Construct(Key("validation_sampler"), "validation_sampler", "executor")
       ELSE pc' = "executor" /\ UNCHANGED <<calls, exc>>
    /\ UNCHANGED <<dicts, metrics, ret, output, past_optimizer, Locals, Caller>>

ConstructExecutor ==
    /\ pc = "executor"
    /\ IF ~Has(Merged, Key("executor"))
       THEN Raise(ConfigurationError("SyntaxError", "executor")) /\ calls' = calls
       ELSE /\ Construct(Key("executor"), "executor", "optimizer")
    /\ UNCHANGED <<dicts, metrics, ret, output, past_optimizer, Locals, Caller>>

ConstructOptimizer ==
    /\ pc = "optimizer"
    /\ IF ~Has(Merged, Key("optimizer"))
       THEN /\ Raise(ConfigurationError("SyntaxError", "optimizer"))
            /\ UNCHANGED <<calls, past_optimizer>>
       ELSE /\ Construct(Key("optimizer"), "optimizer", "add_total_time")
            /\ past_optimizer' = IF pc' = "add_total_time"
                                 THEN past_optimizer + 1 ELSE past_optimizer
    /\ UNCHANGED <<dicts, metrics, ret, output, Locals, Caller>>

AddTotalTime_Prepend ==
    /\ pc = "add_total_time"
    /\ metrics' = <<WallclockEntry>> \o metrics
    /\ pc' = "test_training"
    /\ UNCHANGED <<dicts, exc, ret, calls, output, past_optimizer, Locals, Caller>>

AddTotalTime_AfterEpochsCheck ==
    /\ pc = "add_total_time"
    /\ IF ~Has(Merged, Key("epochs"))
       THEN Raise(ConfigurationError("SyntaxError", "epochs")) /\ metrics' = metrics
       ELSE /\ metrics' = Append(metrics, WallclockEntry)
            /\ pc' = "test_training"
            /\ exc' = exc
    /\ UNCHANGED <<dicts, ret, calls, output, past_optimizer, Locals, Caller>>

AddTotalTime ==
    /\ pc = "add_total_time"
    /\ metrics' = Append(metrics, WallclockEntry)
    /\ pc' = "test_training"
    /\ UNCHANGED <<dicts, exc, ret, calls, output, past_optimizer, Locals, Caller>>

RunTrainer_NoEpochsCheck ==
    /\ pc = "test_training"
    /\ dicts' = [dicts EXCEPT ![comps] =
                    IF ~Has(@, Key("events"))
                    THEN SetItem(@, Key("events"), NoneValue) ELSE @]
    /\ train_metrics' = [j \in 1..Len(metrics) |-> metrics[j][1]]
    /\ Invoke("test_training", "verify")
    /\ IF pc' = "verify"
       THEN results' \in TestTrainingResults(train_metrics')
       ELSE results' = results
    /\ ok' = TRUE
    /\ vidx' = 1
    /\ UNCHANGED <<comps, old_keys, kidx, metrics, ret, output, past_optimizer,
                   Caller>>

RunTrainer ==
    /\ pc = "test_training"
    /\ IF ~Has(Merged, Key("epochs"))
       THEN /\ Raise(ConfigurationError("SyntaxError", "epochs"))
            /\ UNCHANGED <<dicts, calls, train_metrics, results>>
       ELSE /\ dicts' = [dicts EXCEPT ![comps] =
                            IF ~Has(@, Key("events"))
                            THEN SetItem(@, Key("events"), NoneValue) ELSE @]
            /\ train_metrics' = [j \in 1..Len(metrics) |-> metrics[j][1]]
            /\ Invoke("test_training", "verify")
            /\ IF pc' = "verify"
               THEN results' \in TestTrainingResults(train_metrics')
               ELSE results' = results
    /\ ok' = TRUE
    /\ vidx' = 1
    /\ UNCHANGED <<comps, old_keys, kidx, metrics, ret, output, past_optimizer,
                   Caller>>

Min(a, b) == IF a < b THEN a ELSE b

Fails_OrEqual(acceptable, result) ==
    acceptable # None /\ result <= acceptable[1]

Fails(acceptable, result) ==
    acceptable # None /\ result < acceptable[1]

FailLine(metric, result, acceptable) ==
    [line |-> "FAIL", metric |-> metric, result |-> Some(result),
     acceptable |-> acceptable]

PassedLine ==
    [line |-> "PASSED", metric |-> "", result |-> None, acceptable |-> None]

VerifyResults_StopAtFirst ==
    /\ pc = "verify"
    /\ IF vidx <= Min(Len(metrics), Len(results))
       THEN IF Fails(metrics[vidx][2], results[vidx])
            THEN /\ output' = Append(output, FailLine(metrics[vidx][1],
                                         results[vidx], metrics[vidx][2]))
                 /\ ok' = FALSE
                 /\ pc' = "done"
                 /\ ret' = "False"
                 /\ vidx' = vidx
            ELSE /\ vidx' = vidx + 1
                 /\ UNCHANGED <<output, ok, pc, ret>>
       ELSE /\ pc' = "done"
            /\ IF ~ok
               THEN ret' = "False" /\ output' = output
               ELSE ret' = "True" /\ output' = Append(output, PassedLine)
            /\ UNCHANGED <<ok, vidx>>
    /\ UNCHANGED <<dicts, comps, old_keys, kidx, metrics, train_metrics,
                   results, exc, calls, past_optimizer, Caller>>

VerifyResults ==
    /\ pc = "verify"
    /\ IF vidx <= Min(Len(metrics), Len(results))
       THEN /\ IF Fails(metrics[vidx][2], results[vidx])
               THEN /\ output' = Append(output, FailLine(metrics[vidx][1],
                                            results[vidx], metrics[vidx][2]))
                    /\ ok' = FALSE
               ELSE UNCHANGED <<output, ok>>
            /\ vidx' = vidx + 1
            /\ UNCHANGED <<pc, ret>>
       ELSE /\ pc' = "done"
            /\ IF ~ok
               THEN ret' = "False" /\ output' = output
               ELSE ret' = "True" /\ output' = Append(output, PassedLine)
            /\ UNCHANGED <<ok, vidx>>
    /\ UNCHANGED <<dicts, comps, old_keys, kidx, metrics, train_metrics,
                   results, exc, calls, past_optimizer, Caller>>

Next ==
    \/ Call
    \/ ValidateArguments
    \/ CreateUnifiedDictionary
    \/ AddMissingArguments
    \/ ObtainDatasetLoss
    \/ ObtainDatasetShape
    \/ ConstructNetwork
    \/ AddLossFunction
    \/ ConstructDataset
    \/ ConstructTrainSampler
    \/ ConstructValidationSampler
    \/ ConstructExecutor
    \/ ConstructOptimizer
    \/ AddTotalTime
    \/ RunTrainer
    \/ VerifyResults

Spec == Init /\ [][Next]_vars

----------------------------------------------------------------------------
(* What the properties speak about *)

EntryKeys == KeySet(entry.fixed) \cup KeySet(entry.mutable)
SharedKeys == KeySet(entry.fixed) \cap KeySet(entry.mutable)

OverlapError == <<"RuntimeError", "overlap">>
IsConfigurationError(e) == e # <<>> /\ e[1] \in {"RuntimeError", "SyntaxError"}
IsCollaboratorError(e) == e # <<>> /\ e[1] = "CollaboratorError"

RequiredOrder == <<"dataset", "model", "batch_size", "executor", "optimizer",
                   "epochs">>
MissingRequired ==
    {j \in 1..Len(RequiredOrder) : Key(RequiredOrder[j]) \notin EntryKeys}
FirstMissing ==
    RequiredOrder[CHOOSE j \in MissingRequired : \A h \in MissingRequired : j <= h]

InvokedBeforeCheck(key) ==
    IF key = "dataset" THEN {}
    ELSE IF key \in {"model", "batch_size"} THEN {"dataset_loss", "dataset_shape"}
    ELSE {"dataset_loss", "dataset_shape", "create_model", "add_operation",
          "load_dataset", "train_sampler", "validation_sampler"}
         \cup (IF key \in {"optimizer", "epochs"} THEN {"executor"} ELSE {})
         \cup (IF key = "epochs" THEN {"optimizer"} ELSE {})

IsComponent(k) ==
    /\ k \notin {<<"batch_size">>, <<"epochs">>, <<"events">>}
    /\ k[Len(k)] \notin {"_args", "_kwargs"}

Supplied(k) ==
    IF k \in KeySet(entry.fixed) THEN Get(entry.fixed, k) ELSE Get(entry.mutable, k)

Normalized == comps # "none" /\ pc \notin {"merge", "normalize"}

ExpectedCalls ==
    <<"dataset_loss", "dataset_shape", "create_model", "add_operation",
      "load_dataset">>
    \o (IF Key("train_sampler") \in EntryKeys THEN <<"train_sampler">> ELSE <<>>)
    \o (IF Key("validation_sampler") \in EntryKeys
        THEN <<"validation_sampler">> ELSE <<>>)
    \o <<"executor", "optimizer", "test_training">>

IsPrefix(s, t) == Len(s) <= Len(t) /\ \A j \in 1..Len(s) : s[j] = t[j]
Invoked(name) == \E j \in 1..Len(calls) : calls[j] = name
Times(name) == Cardinality({j \in 1..Len(calls) : calls[j] = name})

Below(j) == metrics[j][2] # None /\ results[j] < metrics[j][2][1]

RECURSIVE Diagnostics(_)
Diagnostics(n) ==
    IF n = 0 THEN <<>>
    ELSE Diagnostics(n - 1) \o
         (IF Below(n)
          THEN <<[line |-> "FAIL", metric |-> metrics[n][1],
                  result |-> <<results[n]>>, acceptable |-> metrics[n][2]]>>
          ELSE <<>>)

RECURSIVE Wallclocks(_)
Wallclocks(n) == IF n <= 0 THEN <<>> ELSE Wallclocks(n - 1) \o <<WallclockEntry>>

Returned == pc = "done" /\ ret # "none"

----------------------------------------------------------------------------
(* The properties *)

\* C1: a call ends in the overlap error exactly when some key is in both
\* fixed and mutable, and a call that ended so invoked no collaborator and
\* printed nothing.
C1_OverlapRaises ==
    /\ pc = "done" => (exc = OverlapError <=> SharedKeys # {})
    /\ SharedKeys # {} => pc \in {"idle", "validate", "done"}
    /\ exc = OverlapError =>
          calls = <<>> /\ output = <<>> /\ ret = "none" /\ comps = "none"

C1_Witness ==
    /\ pc = "done" /\ exc = OverlapError
    /\ SharedKeys = {Key("model")}

\* C2: after normalization of disjoint maps the merged map holds every key of
\* fixed and of mutable with its value; every component key of the union has
\* its _args and _kwargs companions, the caller's when supplied and the empty
\* tuple / empty dict otherwise; and apart from events the map holds no other
\* key, so that no added key has companions of its own.
C2_Normalization ==
    Normalized =>
        LET m == dicts.merged
            companions == {ArgsKey(k) : k \in {e \in EntryKeys : IsComponent(e)}}
                   \cup {KwargsKey(k) : k \in {e \in EntryKeys : IsComponent(e)}}
        IN  /\ \A k \in EntryKeys : Has(m, k) /\ Get(m, k) = Supplied(k)
            /\ \A k \in companions : Has(m, k)
            /\ \A k \in companions \ EntryKeys :
                  Get(m, k) = IF k[Len(k)] = "_args" THEN EmptyTuple ELSE EmptyDict
            /\ KeySet(m) \ {Key("events")} = (EntryKeys \cup companions) \ {Key("events")}

C2_Witness ==
    /\ Normalized
    /\ ArgsKey(Key("model")) \in KeySet(entry.fixed)
    /\ Key("model") \in KeySet(entry.mutable)
    /\ Get(dicts.merged, ArgsKey(Key("model"))) = "F"
    /\ Get(dicts.merged, KwargsKey(Key("model"))) = EmptyDict
    /\ ~Has(dicts.merged, ArgsKey(ArgsKey(Key("model"))))

\* C3 as stated: a call whose configuration omits one of dataset, model,
\* batch_size, executor, optimizer, epochs ends in a configuration error and
\* never invokes test_training.
C3_EndsInConfigurationError ==
    (pc = "done" /\ MissingRequired # {}) =>
        IsConfigurationError(exc) /\ ~Invoked("test_training")

\* C3 as amended: such a call never invokes test_training, never reaches the
\* verification and returns nothing; it ends in an error, which is the
\* configuration error of the first missing key in the order of the checks
\* unless the keys overlap or a collaborator invoked before that check raised.
C3_MissingKeyNeverTrains ==
    MissingRequired # {} =>
        /\ ~Invoked("test_training")
        /\ pc # "verify"
        /\ ret = "none"
        /\ pc = "done" =>
              /\ IsConfigurationError(exc) \/ IsCollaboratorError(exc)
              /\ IsConfigurationError(exc) /\ SharedKeys = {} =>
                    exc = <<"SyntaxError", FirstMissing>>
              /\ IsCollaboratorError(exc) =>
                    /\ SharedKeys = {}
                    /\ calls[Len(calls)] = exc[2]
                    /\ exc[2] \in InvokedBeforeCheck(FirstMissing)

C3_Witness ==
    /\ pc = "done"
    /\ MissingRequired = {6}
    /\ exc = <<"SyntaxError", "epochs">>
    /\ Invoked("optimizer")

C5_Verdict ==
    (Returned /\ Len(results) = Len(metrics)) =>
        (ret = "True" <=> ~\E j \in 1..Len(metrics) : Below(j))

C5_Witness ==
    /\ Returned /\ ret = "True"
    /\ Len(metrics) = 3
    /\ metrics[1][2] = Some(1) /\ results[1] = 1
    /\ metrics[2][2] = None /\ results[2] = 0
    /\ results[3] = 0

\* C6: the verification examines every position: what is printed so far is
\* one FAIL line for each failing position already passed, in order, and at
\* the return it is followed by PASSED exactly when there is no FAIL line.
C6_AllMetricsExamined ==
    /\ pc = "verify" => output = Diagnostics(vidx - 1) /\ vidx <= Len(metrics) + 1
    /\ Returned =>
          /\ vidx = Len(metrics) + 1
          /\ output = Diagnostics(Len(metrics)) \o
                      (IF Diagnostics(Len(metrics)) = <<>>
                       THEN <<PassedLine>> ELSE <<>>)
          /\ ret = "False" <=> Diagnostics(Len(metrics)) # <<>>

C6_Witness ==
    /\ Returned /\ ret = "False"
    /\ Len(output) = 2
    /\ output[1].metric = "Loss" /\ output[2].metric = "Accuracy"

\* C7: the caller's fixed and mutable dictionaries hold, at every point of a
\* call and after it, what they held when the call started.
C7_CallerMapsUntouched ==
    dicts.fixed = entry.fixed /\ dicts.mutable = entry.mutable

C7_Witness ==
    /\ Returned
    /\ Has(dicts.merged, Key("events"))
    /\ Has(dicts.merged, KwargsKey(Key("model")))
    /\ ~Has(dicts.fixed, KwargsKey(Key("model")))
    /\ ~Has(dicts.mutable, Key("events"))

\* C8: the collaborators invoked so far are an initial part of the fixed
\* order (the samplers only when configured), each at most once.
C8_CollaboratorOrder ==
    /\ IsPrefix(calls, ExpectedCalls)
    /\ \A j \in 1..Len(calls) : Times(calls[j]) = 1

C8_Witness ==
    /\ pc = "verify"
    /\ Len(calls) = 10
    /\ Invoked("train_sampler") /\ Invoked("validation_sampler")

\* C9: once a collaborator has raised, the call is over with that error: the
\* failed call is the last one made and was made once, nothing is printed and
\* nothing is returned.
C9_CollaboratorFailureEndsCall ==
    IsCollaboratorError(exc) =>
        /\ pc = "done"
        /\ calls # <<>> /\ calls[Len(calls)] = exc[2]
        /\ Times(exc[2]) = 1
        /\ output = <<>>
        /\ ret = "none"

C9_Witness ==
    /\ pc = "done"
    /\ exc = CollaboratorError("load_dataset")
    /\ Len(calls) = 5

\* C10: the caller's metrics list is its first content followed by one
\* wall-clock entry for each call that got past the construction of the
\* optimizer, whatever happened to the call afterwards, and a finished call
\* has added one entry exactly when its optimizer was constructed.
C10_WallclockAccumulates ==
    /\ metrics = initial \o
          Wallclocks(past_optimizer - (IF pc = "add_total_time" THEN 1 ELSE 0))
    /\ pc = "done" =>
          Len(metrics) = Len(entry.metrics) +
              (IF Invoked("optimizer") /\ exc # CollaboratorError("optimizer")
               THEN 1 ELSE 0)

C10_Witness ==
    /\ pc = "done"
    /\ runs = 2
    /\ exc = <<"SyntaxError", "epochs">>
    /\ Len(metrics) = Len(initial) + 2

====
